---- MODULE Spec2Model ----
(***************************************************************************)
(* Model of the Zeart Awards config builder.                               *)
(*   src/tools/build_config.js  the builder with pacing, retry/backoff and *)
(*                              the member cache (specification Spec)      *)
(*   src/unnamed/part_000       the builder without cache and without      *)
(*                              retries (specification SpecLegacy)         *)
(* Strings are sequences of characters (one-character TLA+ strings), so    *)
(* that trim, split and the regular expressions are computed.              *)
(***************************************************************************)
EXTENDS Integers, Sequences, FiniteSets, TLC

VARIABLES
  envOk,          \* DISCORD_BOT_TOKEN and DISCORD_GUILD_ID are both set
  doc,            \* src.nominations: a sequence of nominee lists (the input)
  pc,             \* where the single thread of execution is suspended
  ni, ki,         \* main's loop position: nomination index, nominee index
  out,            \* main's local `out` of the current nomination
  result,         \* nom.nominees already reassigned, one list per nomination done
  memberCache,    \* Map key -> promise ([state, value])
  apiKey,         \* the member key of the api call in progress
  attempt,        \* api's loop variable
  waitMs,         \* the duration of the sleep api is suspended in
  status,         \* res.status in api's current iteration; 0: no response yet,
                  \* -1: fetch rejected
  sinceLast,      \* time slept since lastApiCallAt was set, capped at
                  \* MIN_API_INTERVAL_MS: the least Date.now() - lastApiCallAt can be
  err,            \* the error being thrown / printed, NoError if none
  written,        \* config.json has been written
  exitCode,       \* process exit code, -1 while running
  inflight,       \* HTTP requests sent and not yet answered
  requests,       \* HTTP requests sent by the api call in progress
  lookups,        \* per key: number of api calls started for that member
  sleptMs,        \* time slept (pace and retry waits) in the api call in progress
  owedUs,         \* sum of the retry_after values the server gave, in microseconds
  n429,           \* 429 responses received by the api call in progress
  timed           \* the run is observed with a stopwatch (sleptMs, owedUs, n429)

vars == << envOk, doc, pc, ni, ki, out, result, memberCache, apiKey, attempt,
           waitMs, status, sinceLast, err, written, exitCode, inflight, requests,
           lookups, sleptMs, owedUs, n429, timed >>

----------------------------------------------------------------------------
(* Bounds of the model *)

MaxNominations == 2   \* nominations in a document
MaxNominees == 3      \* nominees in a document, over all its nominations

(* Program constants *)

Retries == 10
MIN_API_INTERVAL_MS == 120
BackoffStepMs == 250
JitterMinMs == 50
JitterSpan == 120
DefaultRetryAfterUs == 1000000

----------------------------------------------------------------------------
(* JavaScript values *)

Undef == << "#undefined" >>

Str(s) == IF s = Undef THEN << "undefined" >> ELSE s

Truthy(v) == v # Undef /\ v # << >>

Get(o, k) == IF k \in DOMAIN o THEN o[k] ELSE Undef

\* a ?? b
Nullish(a, b) == IF a # Undef THEN a ELSE b

\* a || b
OrElse(a, b) == IF Truthy(a) THEN a ELSE b

IsSpace(c) == c \in {" ", "\t", "\n"}

RECURSIVE TrimLeft(_)
TrimLeft(s) == IF s # << >> /\ IsSpace(Head(s)) THEN TrimLeft(Tail(s)) ELSE s

RECURSIVE TrimRight(_)
TrimRight(s) ==
  IF s # << >> /\ IsSpace(s[Len(s)]) THEN TrimRight(SubSeq(s, 1, Len(s) - 1)) ELSE s

Trim(s) == TrimRight(TrimLeft(s))

LowerChar(c) ==
  CASE c = "P" -> "p" [] c = "N" -> "n" [] c = "G" -> "g" [] c = "J" -> "j"
    [] c = "E" -> "e" [] c = "W" -> "w" [] c = "B" -> "b" [] c = "I" -> "i"
    [] c = "F" -> "f" [] c = "S" -> "s" [] c = "V" -> "v" [] c = "C" -> "c"
    [] c = "U" -> "u" [] c = "T" -> "t" [] c = "O" -> "o" [] c = "M" -> "m"
    [] c = "D" -> "d" [] c = "R" -> "r" [] c = "A" -> "a"
    [] OTHER -> c

ToLower(s) == [i \in 1..Len(s) |-> LowerChar(s[i])]

EndsWith(s, suf) ==
  Len(s) >= Len(suf) /\ SubSeq(s, Len(s) - Len(suf) + 1, Len(s)) = suf

ImageExts ==
  { << ".", "p", "n", "g" >>, << ".", "j", "p", "g" >>, << ".", "j", "p", "e", "g" >>,
    << ".", "w", "e", "b", "p" >>, << ".", "g", "i", "f" >>, << ".", "s", "v", "g" >> }

\* s.split("/").pop()
LastSegment(s) ==
  LET slashes == {i \in 1..Len(s) : s[i] = "/"}
  IN  IF slashes = {} THEN s
      ELSE LET last == CHOOSE i \in slashes : \A j \in slashes : j <= i
           IN  SubSeq(s, last + 1, Len(s))

\* base.replace(/\.[^.]+$/, "")
StripExt(s) ==
  LET dots == {i \in 1..Len(s) : s[i] = "."}
  IN  IF dots = {} THEN s
      ELSE LET last == CHOOSE i \in dots : \A j \in dots : j <= i
           IN  IF last < Len(s) THEN SubSeq(s, 1, last - 1) ELSE s

IsSep(c) == c \in {"_", "-"}

\* s.replace(/[_-]+/g, " ")
RECURSIVE ReplaceSeps(_)
ReplaceSeps(s) ==
  IF s = << >> THEN << >>
  ELSE IF IsSep(Head(s))
       THEN IF Len(s) > 1 /\ IsSep(s[2]) THEN ReplaceSeps(Tail(s))
            ELSE << " " >> \o ReplaceSeps(Tail(s))
       ELSE << Head(s) >> \o ReplaceSeps(Tail(s))

\* (url.split("/").pop() || url).replace(ext, "").replace(seps, " ").trim()
TitleFromPath(url) ==
  Trim(ReplaceSeps(StripExt(OrElse(LastSegment(url), url))))

----------------------------------------------------------------------------
(* Literals *)

TCustom == << "c", "u", "s", "t", "o", "m" >>
TVideo == << "v", "i", "d", "e", "o" >>
TDiscord == << "d", "i", "s", "c", "o", "r", "d" >>
TMember == << "m", "e", "m", "b", "e", "r" >>
TUnknown == << "u", "n", "k", "n", "o", "w", "n" >>

DefaultAvatar == << "https://cdn.discordapp.com/embed/avatars/0.png" >>

GuildId == << "G" >>

\* `/guilds/${guildId}/members/${key}`
MemberPath(key) == << "/guilds/" >> \o GuildId \o << "/members/" >> \o key

NoError == [kind |-> "none"]

----------------------------------------------------------------------------
(* The identity provider: the member objects the guild holds *)

Ids == { << "1" >>, << "2" >> }

ServerMember(key) ==
  IF key = << "1" >>
  THEN [user |-> [id |-> << "1" >>, username |-> << "b", "o", "b" >>,
                  avatar |-> << "a", "_", "9" >>]]
  ELSE [nick |-> << "Z", "e" >>,
        user |-> [id |-> key, global_name |-> << "Z" >>]]

ErrorBody == << "{\"message\": \"error\"}" >>

----------------------------------------------------------------------------
(* avatarUrl, src/tools/build_config.js:58 *)

avatarUrl(userId, avatarHash) ==
  IF ~Truthy(avatarHash) THEN DefaultAvatar
  ELSE LET ext == IF Len(avatarHash) >= 2 /\ SubSeq(avatarHash, 1, 2) = << "a", "_" >>
                  THEN << "gif" >> ELSE << "png" >>
       IN  << "https://cdn.discordapp.com/avatars/" >> \o Str(userId) \o << "/" >>
             \o avatarHash \o << "." >> \o ext \o << "?size=256" >>

\* the member object fetchMember builds from the api's answer m
MemberOf(m, key) ==
  LET u == IF "user" \in DOMAIN m THEN m.user ELSE [x \in {} |-> Undef]
      display == OrElse(Get(m, "nick"),
                   OrElse(Get(u, "global_name"), OrElse(Get(u, "username"), key)))
  IN  [type |-> TDiscord,
       id |-> Get(u, "id"),
       name |-> display,
       tag |-> IF Truthy(Get(u, "username")) THEN << "@" >> \o u.username ELSE << >>,
       avatarUrl |-> avatarUrl(Get(u, "id"), Get(u, "avatar"))]

----------------------------------------------------------------------------
(* Nominee inputs: null, a string, or an object (a record of the keys present) *)

NullInput == [shape |-> "null"]
StringInput(s) == [shape |-> "string", s |-> s]
ObjectInput(o) == [shape |-> "object", o |-> o]

looksLikeImagePath(n) ==
  n.shape = "string" /\ \E e \in ImageExts : EndsWith(ToLower(Trim(n.s)), e)

\* What resolveNominee does: return a value, throw, or await fetchMember(id)
Return(v) == [tag |-> "return", value |-> v]
ReturnNull == [tag |-> "null"]
Throw(e) == [tag |-> "throw", error |-> e]
AwaitMember(id) == [tag |-> "member", id |-> id]

TypeOf(o) == ToLower(OrElse(Get(o, "type"), << >>))

\* the shorthand branch, src/tools/build_config.js:187
ResolveShorthand(n) ==
  LET imageUrl == Trim(n.s)
      title == TitleFromPath(imageUrl)
  IN  Return([type |-> TCustom, imageUrl |-> imageUrl,
              title |-> IF Truthy(title) THEN title ELSE Undef])

\* the custom branch, src/tools/build_config.js:217
ResolveCustom(o) ==
  LET imageUrl == Nullish(Get(o, "imageUrl"),
                    Nullish(Get(o, "path"), Nullish(Get(o, "src"), Get(o, "url"))))
      title0 == Nullish(Get(o, "title"), Nullish(Get(o, "name"), Get(o, "text")))
      title == IF Truthy(title0) THEN title0 ELSE TitleFromPath(Str(imageUrl))
  IN  IF ~Truthy(imageUrl)
      THEN IF ~Truthy(title0) THEN ReturnNull
           ELSE Return([type |-> TCustom, title |-> Trim(Str(title0))])
      ELSE IF Truthy(title)
           THEN Return([type |-> TCustom, imageUrl |-> Str(imageUrl),
                        title |-> Trim(Str(title))])
           ELSE Return([type |-> TCustom, imageUrl |-> Str(imageUrl)])

\* the video branch, src/tools/build_config.js:240
ResolveVideo(o) ==
  LET videoUrl == Get(o, "videoUrl")
      title == IF Truthy(Get(o, "title")) THEN o.title ELSE TitleFromPath(Str(videoUrl))
      base == [type |-> TVideo, videoUrl |-> Str(videoUrl)]
      withPoster == IF Truthy(Get(o, "posterUrl"))
                    THEN base @@ [posterUrl |-> Str(o.posterUrl)] ELSE base
  IN  IF ~Truthy(videoUrl) THEN Throw([kind |-> "video", missing |-> "videoUrl"])
      ELSE IF Truthy(title) THEN Return(withPoster @@ [title |-> Str(title)])
           ELSE Return(withPoster)

\* { ...n, type: type || "unknown" }
ResolveUnknown(o) ==
  Return([k \in DOMAIN o \cup {"type"} |->
            IF k = "type" THEN OrElse(TypeOf(o), TUnknown) ELSE o[k]])

IsDiscord(o) == TypeOf(o) \in {<< >>, TDiscord, TMember} /\ Truthy(Get(o, "id"))

\* resolveNominee up to its first await, src/tools/build_config.js:183
resolveNominee(n) ==
  IF n.shape = "null" THEN ReturnNull
  ELSE IF n.shape = "string"
       THEN IF n.s = << >> THEN ReturnNull
            ELSE IF looksLikeImagePath(n) THEN ResolveShorthand(n) ELSE ReturnNull
       ELSE IF DOMAIN n.o = {} THEN ReturnNull
            ELSE IF IsDiscord(n.o) THEN AwaitMember(n.o.id)
            ELSE IF TypeOf(n.o) = TCustom THEN ResolveCustom(n.o)
            ELSE IF TypeOf(n.o) = TVideo THEN ResolveVideo(n.o)
            ELSE ResolveUnknown(n.o)

\* resolveNominee after fetchMember returned, src/tools/build_config.js:202
MergeMember(member, o) ==
  [k \in DOMAIN member \cup DOMAIN o |->
     CASE k = "type" -> TDiscord
       [] k = "id" -> member.id
       [] k \in {"name", "tag", "avatarUrl"} -> Nullish(Get(o, k), member[k])
       [] OTHER -> IF k \in DOMAIN o THEN o[k] ELSE member[k]]

----------------------------------------------------------------------------
(* Input documents *)

DiscordOne == ObjectInput([id |-> << "1" >>])
DiscordTwo ==
  ObjectInput([type |-> << "D", "i", "s", "c", "o", "r", "d" >>, id |-> << "2" >>,
               name |-> << "N", "e", "o" >>])
CustomEmpty == ObjectInput([type |-> TCustom])
CustomTitleOnly == ObjectInput([type |-> TCustom, title |-> << " ", "G", "o", "t", "y" >>])
CustomImage == ObjectInput([type |-> TCustom, path |-> << "a", "/", "g", "_", "1", ".", "j", "p", "g" >>])
VideoNoUrl == ObjectInput([type |-> TVideo, title |-> << "C", "l", "i", "p" >>])
VideoClip ==
  ObjectInput([type |-> << "V", "i", "d", "e", "o" >>,
               videoUrl |-> << "v", "/", "c", "-", "-", "2", ".", "m", "p", "4" >>])
ImageString == StringInput(<< "a", "/", "M", "y", "-", "g", ".", "P", "N", "G", " " >>)
PlainString == StringInput(<< "h", "i" >>)
EmptyObject == ObjectInput([x \in {} |-> Undef])
OtherObject == ObjectInput([type |-> << "C", "l", "i", "p" >>, name |-> << "x" >>])

\* the nominees the documents of Spec are made of
NomineeInputs ==
  { DiscordOne, DiscordTwo, CustomEmpty, CustomTitleOnly, VideoNoUrl }

\* every shape resolveNominee tells apart
AllNomineeInputs ==
  NomineeInputs \cup { ImageString, CustomImage, VideoClip, PlainString, EmptyObject,
                       OtherObject, NullInput }

RECURSIVE SeqsUpTo(_, _)
SeqsUpTo(S, n) ==
  IF n = 0 THEN { << >> }
  ELSE LET shorter == SeqsUpTo(S, n - 1)
       IN  shorter \cup { Append(s, x) : s \in {t \in shorter : Len(t) = n - 1}, x \in S }

\* documents of exactly k nominations holding at most t nominees in all
RECURSIVE DocsOf(_, _)
DocsOf(k, t) ==
  IF k = 0 THEN { << >> }
  ELSE UNION { { << first >> \o rest : rest \in DocsOf(k - 1, t - Len(first)) } :
               first \in SeqsUpTo(NomineeInputs, t) }

Docs == UNION { DocsOf(k, MaxNominees) : k \in 0..MaxNominations }

\* the documents timed with the stopwatch: one nomination, holding one nominee
\* of any shape or the same member twice
TimedDocs ==
  { << << n >> >> : n \in AllNomineeInputs }
    \cup { << << n, n >> >> : n \in {DiscordOne, DiscordTwo} }

----------------------------------------------------------------------------
(* What the server and the clock may do *)

\* body.retry_after in microseconds; -1: the body has no numeric retry_after
RetryAfters == { -1, 500, 1500000 }
Jitters == { JitterMinMs, JitterMinMs + JitterSpan - 1 }
\* time that passed besides the sleeps (requests in flight) when pace reads the clock
Latencies == { 0, MIN_API_INTERVAL_MS }
ServerErrors == { 500, 599 }
OtherStatuses == { 304, 404 }

CeilDiv(a, b) == (a + b - 1) \div b

Min(a, b) == IF a < b THEN a ELSE b

Pending == [state |-> "pending"]
Fulfilled(v) == [state |-> "fulfilled", value |-> v]
Rejected(e) == [state |-> "rejected", error |-> e]

CurrentNominee == doc[ni][ki]

----------------------------------------------------------------------------
(* Initial states *)

InitWith(documents, stopwatch) ==
  /\ envOk \in BOOLEAN
  /\ doc \in documents
  /\ timed = stopwatch
  /\ pc = "boot"
  /\ ni = 1
  /\ ki = 1
  /\ out = << >>
  /\ result = << >>
  /\ memberCache = [k \in {} |-> Pending]
  /\ apiKey = Undef
  /\ attempt = 0
  /\ waitMs = 0
  /\ status = 0
  /\ sinceLast = MIN_API_INTERVAL_MS
  /\ err = NoError
  /\ written = FALSE
  /\ exitCode = -1
  /\ inflight = 0
  /\ requests = 0
  /\ lookups = [k \in Ids |-> 0]
  /\ sleptMs = 0
  /\ owedUs = 0
  /\ n429 = 0

Init == InitWith(Docs, FALSE)

InitTimed == InitWith(TimedDocs, TRUE)

----------------------------------------------------------------------------
(* src/tools/build_config.js *)

respVars == << apiKey, attempt, waitMs, requests, sleptMs, owedUs, n429 >>
apiVars == << apiKey, attempt, waitMs, status, requests, sleptMs, owedUs, n429 >>
mainVars == << ni, ki, out, result >>
inputVars == << envOk, doc, timed >>

Push_Front(list, v) == << v >> \o list

\* resolveNominee returned v to main: if (resolved) out.push(resolved)
Push(list, v) == Append(list, v)

\* module top level, lines 20-26, then main() up to its loop
Startup ==
  /\ pc = "boot"
  /\ IF envOk
     THEN /\ pc' = "main"
          /\ UNCHANGED << err, exitCode >>
     ELSE /\ pc' = "exit"
          /\ err' = [kind |-> "env"]
          /\ exitCode' = 1
  /\ UNCHANGED << inputVars, mainVars, memberCache, apiVars, sinceLast, written,
                  inflight, lookups >>

\* the end of the inner loop: nom.nominees = out
MainNextNomination ==
  /\ pc = "main"
  /\ ni <= Len(doc)
  /\ ki > Len(doc[ni])
  /\ result' = Append(result, out)
  /\ out' = << >>
  /\ ni' = ni + 1
  /\ ki' = 1
  /\ UNCHANGED << inputVars, pc, memberCache, apiVars, sinceLast, err, written,
                  exitCode, inflight, lookups >>

MainWriteGuard_Early == pc = "main" /\ ni >= Len(doc)

\* the end of the outer loop
MainWriteGuard == pc = "main" /\ ni > Len(doc)

\* fs.writeFileSync("config.json", ...), and the process ends with code 0
MainWrite ==
  /\ MainWriteGuard
  /\ written' = TRUE
  /\ exitCode' = 0
  /\ pc' = "exit"
  /\ UNCHANGED << inputVars, mainVars, memberCache, apiVars, sinceLast, err,
                  inflight, lookups >>

\* fetchMember finds the key in memberCache
CacheHit(key) == key \in DOMAIN memberCache

\* one iteration of main's inner loop up to the first await that suspends it
MainResolve ==
  /\ pc = "main"
  /\ ni <= Len(doc)
  /\ ki <= Len(doc[ni])
  /\ LET r == resolveNominee(CurrentNominee)
     IN  CASE r.tag = "null" ->
                /\ ki' = ki + 1
                /\ UNCHANGED << pc, out, err, memberCache, apiVars, lookups >>
           [] r.tag = "return" ->
                /\ out' = Push(out, r.value)
                /\ ki' = ki + 1
                /\ UNCHANGED << pc, err, memberCache, apiVars, lookups >>
           [] r.tag = "throw" ->
                /\ err' = r.error
                /\ pc' = "rejected"
                /\ UNCHANGED << ki, out, memberCache, apiVars, lookups >>
           [] r.tag = "member" ->
                LET key == Str(r.id)
                IN  IF CacheHit(key)
                    THEN /\ pc' = "hit"
                         /\ apiKey' = key
                         /\ UNCHANGED << ki, out, err, memberCache, attempt, waitMs,
                                         status, requests, sleptMs, owedUs, n429,
                                         lookups >>
                    ELSE /\ memberCache' = (key :> Pending) @@ memberCache
                         /\ lookups' = [lookups EXCEPT ![key] = @ + 1]
                         /\ apiKey' = key
                         /\ attempt' = 0
                         /\ pc' = "pace"
                         /\ UNCHANGED << ki, out, err, waitMs, status, requests,
                                         sleptMs, owedUs, n429 >>
  /\ UNCHANGED << inputVars, ni, result, sinceLast, written, exitCode, inflight >>

\* return await memberCache.get(key), line 124, then resolveNominee's merge
FetchMemberHit ==
  /\ pc = "hit"
  /\ memberCache[apiKey].state # "pending"
  /\ IF memberCache[apiKey].state = "fulfilled"
     THEN /\ out' = Push(out, MergeMember(memberCache[apiKey].value, CurrentNominee.o))
          /\ ki' = ki + 1
          /\ pc' = "main"
          /\ UNCHANGED err
     ELSE /\ err' = memberCache[apiKey].error
          /\ pc' = "rejected"
          /\ UNCHANGED << ki, out >>
  /\ apiKey' = Undef
  /\ UNCHANGED << inputVars, ni, result, memberCache, attempt, waitMs, status,
                  requests, sleptMs, owedUs, n429, sinceLast, written, exitCode,
                  inflight, lookups >>

\* The stopwatch runs while every response of the api call so far was a 429;
\* k is the number of responses the call has had
Watching(k) == timed /\ n429 = k

\* pace(), lines 50-55: the sleep pace asks for
PaceWait(latency) == MIN_API_INTERVAL_MS - (sinceLast + latency)

\* await pace(); then fetch(url, ...) is sent, lines 68-75
ApiRequest ==
  /\ pc = "pace"
  /\ attempt <= Retries
  /\ \E latency \in Latencies :
       sleptMs' = IF Watching(attempt) /\ PaceWait(latency) > 0
                  THEN sleptMs + PaceWait(latency) ELSE sleptMs
  /\ sinceLast' = 0
  /\ inflight' = inflight + 1
  /\ requests' = requests + 1
  /\ pc' = "fetch"
  /\ UNCHANGED << inputVars, mainVars, memberCache, apiKey, attempt, waitMs, status,
                  owedUs, n429, err, written, exitCode, lookups >>

\* the promise p of fetchMember settles (the api call returned or threw)
Settle(promise) ==
  /\ memberCache' = [memberCache EXCEPT ![apiKey] = promise]
  /\ pc' = "settled"

\* the response has arrived
Answered(code) ==
  /\ pc = "fetch"
  /\ status' = code
  /\ inflight' = inflight - 1
  /\ UNCHANGED sinceLast

Exhausted_Early == attempt >= Retries - 1

\* attempt >= retries, lines 91 and 101
Exhausted == attempt >= Retries

\* lines 79-89: retry_after in seconds, 1 if the body gives no number
RetryAfterUs(ra) == IF ra >= 0 THEN ra ELSE DefaultRetryAfterUs

WaitMs429_Seconds(ra, jitter) == CeilDiv(RetryAfterUs(ra), 1000000) + jitter

\* waitMs = Math.ceil(retryAfterSec * 1000) + jitterMs, line 89
WaitMs429(ra, jitter) == CeilDiv(RetryAfterUs(ra), 1000) + jitter

\* lines 77-97
ApiResponse429 ==
  \E ra \in RetryAfters, jitter \in Jitters :
    /\ Answered(429)
    /\ n429' = IF timed THEN n429 + 1 ELSE n429
    /\ owedUs' = IF Watching(attempt) /\ ra >= 0 THEN owedUs + ra ELSE owedUs
    /\ IF Exhausted
       THEN /\ Settle(Rejected([kind |-> "429", attempts |-> Retries + 1,
                                path |-> MemberPath(apiKey)]))
            /\ UNCHANGED waitMs
       ELSE /\ waitMs' = WaitMs429(ra, jitter)
            /\ pc' = "sleep"
            /\ UNCHANGED memberCache
    /\ UNCHANGED << inputVars, mainVars, apiKey, attempt, requests, sleptMs, err,
                    written, exitCode, lookups >>

BackoffMs_Flat(k) == BackoffStepMs

\* backoffMs = 250 * (attempt + 1), line 104
BackoffMs(k) == BackoffStepMs * (k + 1)

\* lines 99-107
ApiResponse5xx ==
  \E code \in ServerErrors :
    /\ Answered(code)
    /\ IF Exhausted
       THEN /\ Settle(Rejected([kind |-> "status", status |-> code,
                                body |-> ErrorBody]))
            /\ UNCHANGED waitMs
       ELSE /\ waitMs' = BackoffMs(attempt)
            /\ pc' = "sleep"
            /\ UNCHANGED memberCache
    /\ sleptMs' = 0
    /\ owedUs' = 0
    /\ UNCHANGED << inputVars, mainVars, apiKey, attempt, requests, n429, err,
                    written, exitCode, lookups >>

ApiResponseOther_Retried ==
  \E code \in OtherStatuses :
    /\ Answered(code)
    /\ IF Exhausted
       THEN /\ Settle(Rejected([kind |-> "status", status |-> code,
                                body |-> ErrorBody]))
            /\ UNCHANGED waitMs
       ELSE /\ waitMs' = BackoffMs(attempt)
            /\ pc' = "sleep"
            /\ UNCHANGED memberCache
    /\ UNCHANGED << inputVars, mainVars, apiKey, attempt, requests, sleptMs, owedUs,
                    n429, err, written, exitCode, lookups >>

\* line 109: if (!res.ok) throw
ApiResponseOther ==
  \E code \in OtherStatuses :
    /\ Answered(code)
    /\ Settle(Rejected([kind |-> "status", status |-> code, body |-> ErrorBody]))
    /\ UNCHANGED << inputVars, mainVars, respVars, err, written, exitCode, lookups >>

\* line 110: return res.json(); fetchMember's closure builds the member, lines 128-137
ApiResponseOk ==
  /\ Answered(200)
  /\ Settle(Fulfilled(MemberOf(ServerMember(apiKey), apiKey)))
  /\ UNCHANGED << inputVars, mainVars, respVars, err, written, exitCode, lookups >>

ApiFetchReject_Retried ==
  /\ Answered(-1)
  /\ IF Exhausted
     THEN /\ Settle(Rejected([kind |-> "network"]))
          /\ UNCHANGED waitMs
     ELSE /\ waitMs' = BackoffMs(attempt)
          /\ pc' = "sleep"
          /\ UNCHANGED memberCache
  /\ UNCHANGED << inputVars, mainVars, apiKey, attempt, requests, sleptMs, owedUs,
                  n429, err, written, exitCode, lookups >>

\* fetch itself rejects (no response): nothing in api catches it, line 70
ApiFetchReject ==
  /\ Answered(-1)
  /\ Settle(Rejected([kind |-> "network"]))
  /\ UNCHANGED << inputVars, mainVars, respVars, err, written, exitCode, lookups >>

\* the sleep of line 95 or 105 ends; continue: attempt++
ApiWake ==
  /\ pc = "sleep"
  /\ sleptMs' = IF Watching(attempt + 1) THEN sleptMs + waitMs ELSE sleptMs
  /\ sinceLast' = Min(MIN_API_INTERVAL_MS, sinceLast + waitMs)
  /\ attempt' = attempt + 1
  /\ waitMs' = 0
  /\ status' = 0
  /\ pc' = "pace"
  /\ UNCHANGED << inputVars, mainVars, memberCache, apiKey, requests, owedUs, n429,
                  err, written, exitCode, inflight, lookups >>

Evict_Nothing(key) == memberCache

\* the catch of fetchMember, lines 143-146
Evict(key) == [k \in DOMAIN memberCache \ {key} |-> memberCache[k]]

\* try { return await p } catch (e) { ... }, lines 141-146, then resolveNominee's merge
FetchMemberSettled ==
  /\ pc = "settled"
  /\ IF memberCache[apiKey].state = "fulfilled"
     THEN /\ out' = Push(out, MergeMember(memberCache[apiKey].value, CurrentNominee.o))
          /\ ki' = ki + 1
          /\ pc' = "main"
          /\ apiKey' = Undef
          /\ attempt' = 0
          /\ status' = 0
          /\ requests' = 0
          /\ sleptMs' = 0
          /\ owedUs' = 0
          /\ n429' = 0
          /\ UNCHANGED << err, memberCache >>
     ELSE /\ err' = memberCache[apiKey].error
          /\ memberCache' = Evict(apiKey)
          /\ pc' = "rejected"
          /\ UNCHANGED << ki, out, apiKey, attempt, status, requests, sleptMs, owedUs,
                          n429 >>
  /\ UNCHANGED << inputVars, ni, result, waitMs, sinceLast, written, exitCode,
                  inflight, lookups >>

\* main().catch: console.error, process.exit(1), lines 278-281
MainCatch ==
  /\ pc = "rejected"
  /\ exitCode' = 1
  /\ pc' = "exit"
  /\ UNCHANGED << inputVars, mainVars, memberCache, apiVars, sinceLast, err, written,
                  inflight, lookups >>

Next ==
  \/ Startup
  \/ MainNextNomination
  \/ MainWrite
  \/ MainResolve
  \/ FetchMemberHit
  \/ ApiRequest
  \/ ApiResponse429
  \/ ApiResponse5xx
  \/ ApiResponseOther
  \/ ApiResponseOk
  \/ ApiFetchReject
  \/ ApiWake
  \/ FetchMemberSettled
  \/ MainCatch

Spec == Init /\ [][Next]_vars

----------------------------------------------------------------------------
(* src/unnamed/part_000: no pacing, no retry, no cache *)

\* the custom branch, src/unnamed/part_000:134
LegacyResolveCustom(o) ==
  LET imageUrl == Nullish(Get(o, "imageUrl"),
                    Nullish(Get(o, "path"), Nullish(Get(o, "src"), Get(o, "url"))))
      title == IF Truthy(Get(o, "title")) THEN o.title ELSE TitleFromPath(Str(imageUrl))
  IN  IF ~Truthy(imageUrl) THEN Throw([kind |-> "custom", missing |-> "imageUrl"])
      ELSE IF Truthy(title)
           THEN Return([type |-> TCustom, imageUrl |-> Str(imageUrl),
                        title |-> Str(title)])
           ELSE Return([type |-> TCustom, imageUrl |-> Str(imageUrl)])

\* resolveNominee up to its first await, src/unnamed/part_000:104
LegacyResolveNominee(n) ==
  IF n.shape = "null" THEN ReturnNull
  ELSE IF n.shape = "string"
       THEN IF n.s = << >> THEN ReturnNull
            ELSE IF looksLikeImagePath(n) THEN ResolveShorthand(n) ELSE ReturnNull
       ELSE IF IsDiscord(n.o) THEN AwaitMember(n.o.id)
            ELSE IF TypeOf(n.o) = TCustom THEN LegacyResolveCustom(n.o)
            ELSE IF TypeOf(n.o) = TVideo THEN ResolveVideo(n.o)
            ELSE ResolveUnknown(n.o)

\* one iteration of main's inner loop; fetchMember calls api, which sends the request
LegacyResolve ==
  /\ pc = "main"
  /\ ni <= Len(doc)
  /\ ki <= Len(doc[ni])
  /\ LET r == LegacyResolveNominee(CurrentNominee)
     IN  CASE r.tag = "null" ->
                /\ ki' = ki + 1
                /\ UNCHANGED << pc, out, err, apiKey, requests, inflight, lookups >>
           [] r.tag = "return" ->
                /\ out' = Push(out, r.value)
                /\ ki' = ki + 1
                /\ UNCHANGED << pc, err, apiKey, requests, inflight, lookups >>
           [] r.tag = "throw" ->
                /\ err' = r.error
                /\ pc' = "rejected"
                /\ UNCHANGED << ki, out, apiKey, requests, inflight, lookups >>
           [] r.tag = "member" ->
                /\ apiKey' = r.id
                /\ lookups' = [lookups EXCEPT ![r.id] = @ + 1]
                /\ requests' = 1
                /\ inflight' = inflight + 1
                /\ pc' = "fetch"
                /\ UNCHANGED << ki, out, err >>
  /\ UNCHANGED << inputVars, ni, result, memberCache, attempt, waitMs, status,
                  sleptMs, owedUs, n429, sinceLast, written, exitCode >>

\* res.ok: api returns res.json(), fetchMember builds the member, resolveNominee merges
LegacyResponseOk ==
  /\ pc = "fetch"
  /\ status' = 200
  /\ inflight' = inflight - 1
  /\ out' = Push(out, MergeMember(MemberOf(ServerMember(apiKey), apiKey),
                                  CurrentNominee.o))
  /\ ki' = ki + 1
  /\ pc' = "main"
  /\ UNCHANGED << inputVars, ni, result, memberCache, apiKey, attempt, waitMs,
                  requests, sleptMs, owedUs, n429, sinceLast, err, written, exitCode,
                  lookups >>

\* if (!res.ok) throw, src/unnamed/part_000:51
LegacyResponseNotOk ==
  \E code \in {429} \cup ServerErrors \cup OtherStatuses :
    /\ pc = "fetch"
    /\ status' = code
    /\ inflight' = inflight - 1
    /\ err' = [kind |-> "status", status |-> code, body |-> ErrorBody]
    /\ pc' = "rejected"
    /\ UNCHANGED << inputVars, mainVars, memberCache, apiKey, attempt, waitMs,
                    requests, sleptMs, owedUs, n429, sinceLast, written, exitCode,
                    lookups >>

\* fetch itself rejects
LegacyFetchReject ==
  /\ pc = "fetch"
  /\ status' = -1
  /\ inflight' = inflight - 1
  /\ err' = [kind |-> "network"]
  /\ pc' = "rejected"
  /\ UNCHANGED << inputVars, mainVars, memberCache, apiKey, attempt, waitMs,
                  requests, sleptMs, owedUs, n429, sinceLast, written, exitCode,
                  lookups >>

NextLegacy ==
  \/ Startup
  \/ MainNextNomination
  \/ MainWrite
  \/ LegacyResolve
  \/ LegacyResponseOk
  \/ LegacyResponseNotOk
  \/ LegacyFetchReject
  \/ MainCatch

SpecLegacy == Init /\ [][NextLegacy]_vars

SpecTimed == InitTimed /\ [][Next]_vars

----------------------------------------------------------------------------
(* What the claims are stated with *)

Is5xx(code) == code >= 500 /\ code <= 599
IsOk(code) == code >= 200 /\ code <= 299

\* a step in which the response to the request in flight is handled
Responded == pc = "fetch" /\ pc' # "fetch"

\* some promise of the cache is rejected: a lookup has failed
LookupFailed == \E k \in DOMAIN memberCache : memberCache[k].state = "rejected"

\* the member key a nominee asks for, Undef if it asks for none
KeyOf(n) ==
  LET r == resolveNominee(n) IN IF r.tag = "member" THEN Str(r.id) ELSE Undef

\* the entries a successful resolution of the nominee puts into the output
EntryOf(n) ==
  LET r == resolveNominee(n)
  IN  CASE r.tag = "return" -> << r.value >>
        [] r.tag = "member" ->
             << MergeMember(MemberOf(ServerMember(Str(r.id)), Str(r.id)), n.o) >>
        [] OTHER -> << >>

RECURSIVE EntriesOf(_)
EntriesOf(list) ==
  IF list = << >> THEN << >> ELSE EntryOf(Head(list)) \o EntriesOf(Tail(list))

\* the nominee is resolved: nothing thrown, and its member, if any, is in the cache
Resolved(n) ==
  /\ resolveNominee(n).tag # "throw"
  /\ KeyOf(n) # Undef =>
       CacheHit(KeyOf(n)) /\ memberCache[KeyOf(n)].state = "fulfilled"

\* the positions main has reached, the current one included
Reached ==
  { p \in (1..Len(doc)) \X (1..MaxNominees) :
      /\ p[2] <= Len(doc[p[1]])
      /\ p[1] < ni \/ (p[1] = ni /\ p[2] <= ki) }

\* a custom nominee that names no image
CustomNoImage(n) ==
  /\ n.shape = "object"
  /\ TypeOf(n.o) = TCustom
  /\ ~IsDiscord(n.o)
  /\ \A f \in {"imageUrl", "path", "src", "url"} : ~Truthy(Get(n.o, f))

RECURSIVE TitleOnlyOf(_)
TitleOnlyOf(list) ==
  IF list = << >> THEN << >>
  ELSE (IF CustomNoImage(Head(list)) /\ Truthy(Get(Head(list).o, "title"))
        THEN << [type |-> TCustom, title |-> Trim(Head(list).o.title)] >>
        ELSE << >>) \o TitleOnlyOf(Tail(list))

IsTitleOnly(e) == e.type = TCustom /\ "imageUrl" \notin DOMAIN e

----------------------------------------------------------------------------
(* The claims *)

\* C1: config.json is written only after every nominee of every nomination has
\* been resolved; once a resolution has failed the run ends with exit code 1
\* and the file is never written.
C1_WriteOnlyAfterAllResolved ==
  /\ written =>
       /\ \A i \in 1..Len(doc) : \A k \in 1..Len(doc[i]) : Resolved(doc[i][k])
       /\ Len(result) = Len(doc)
       /\ err = NoError
       /\ exitCode = 0
  /\ (LookupFailed \/ err # NoError) => ~written /\ exitCode # 0
  /\ err # NoError => pc \in {"rejected", "exit"}
  /\ (pc = "exit" /\ err # NoError) => exitCode = 1

\* a video nominee without videoUrl fails the run after an earlier nomination
\* was resolved; nothing is written
C1_Witness ==
  /\ pc = "exit"
  /\ exitCode = 1
  /\ err.kind = "video"
  /\ ni = 2
  /\ Len(result[1]) >= 1
  /\ ~written

\* C2: in one run at most one member lookup (api call) is started per id; a
\* second nominee with the same id is served from the cache.
C2_AtMostOneLookupPerId == \A k \in Ids : lookups[k] <= 1

\* C3: within one api call a 429 is followed by a sleep and another request
\* while fewer than 11 requests have been sent; a 429 on the 11th request
\* fails the call with an error naming the endpoint and the 11 attempts, and
\* no request follows.
C3_RateLimitRetried ==
  [][ /\ (Responded /\ status' = 429) =>
           IF requests <= 10
           THEN pc' = "sleep" /\ waitMs' > 0 /\ memberCache' = memberCache
           ELSE /\ pc' = "settled"
                /\ memberCache'[apiKey] =
                     Rejected([kind |-> "429", attempts |-> 11,
                               path |-> MemberPath(apiKey)])
      /\ pc = "sleep" => pc' = "pace" /\ attempt' = attempt + 1
      /\ pc = "pace" => pc' = "fetch" /\ requests' = requests + 1 /\ inflight' = 1
      /\ (LookupFailed \/ err # NoError) => requests' = requests /\ inflight' = 0
      /\ requests' <= 11
    ]_vars

\* the 11th request of a call was answered 429 and the run has ended
C3_Witness ==
  /\ pc = "exit"
  /\ err = [kind |-> "429", attempts |-> 11, path |-> MemberPath(apiKey)]
  /\ requests = 11
  /\ status = 429

\* C4: a 5xx answer to attempt k is retried after 250 ms * (k+1); 429 and 5xx
\* share one attempt counter, so a call sends at most 11 requests; a 5xx on
\* the last attempt fails the call.
C4_ServerErrorBackoff ==
  [][ /\ (Responded /\ Is5xx(status')) =>
           IF attempt < 10
           THEN pc' = "sleep" /\ waitMs' = 250 * (attempt + 1)
           ELSE /\ pc' = "settled"
                /\ memberCache'[apiKey] =
                     Rejected([kind |-> "status", status |-> status',
                               body |-> ErrorBody])
      /\ pc = "sleep" => attempt' = attempt + 1 /\ requests' = requests
      /\ pc' = "fetch" => requests' = attempt' + 1
      /\ requests' <= 11
    ]_vars

\* a call that met both 429 and 5xx answers fails on a 5xx at its 11th request
C4_Witness ==
  /\ pc = "exit"
  /\ err.kind = "status"
  /\ Is5xx(err.status)
  /\ requests = 11
  /\ n429 = 4

\* C5: any other non-success status fails the call at once, at whatever
\* attempt, with the status and the body, without a sleep or another
\* request; a success ends the call with the parsed body.
C5_OtherStatusFailsAtOnce ==
  [][ /\ (Responded /\ status' > 0 /\ status' # 429 /\ ~Is5xx(status')
            /\ ~IsOk(status')) =>
           /\ pc' = "settled"
           /\ memberCache'[apiKey] =
                Rejected([kind |-> "status", status |-> status', body |-> ErrorBody])
           /\ waitMs' = 0
           /\ requests' = requests
      /\ (Responded /\ IsOk(status')) =>
           /\ pc' = "settled"
           /\ memberCache'[apiKey] = Fulfilled(MemberOf(ServerMember(apiKey), apiKey))
           /\ waitMs' = 0
           /\ requests' = requests
      /\ pc = "settled" => pc' \in {"main", "rejected"} /\ inflight' = 0
      /\ pc = "rejected" => pc' = "exit" /\ inflight' = 0
    ]_vars

\* a 404 answered the fourth request of a call
C5_Witness ==
  /\ pc = "exit"
  /\ err = [kind |-> "status", status |-> 404, body |-> ErrorBody]
  /\ attempt = 3
  /\ requests = 4

\* C6: when an api call is answered by k 429s and then a success, the call
\* succeeds and the time slept since the first request is at least the sum of
\* the retry_after values the server gave; in a document whose only lookups
\* are of that member (TimedDocs) the run then goes on without an error: the
\* settled call and the cache hit after it are followed by main's next step.
C6_SleptAtLeastRetryAfter ==
  /\ (pc = "settled" /\ memberCache[apiKey].state = "fulfilled" /\ n429 = attempt) =>
       sleptMs * 1000 >= owedUs
  /\ (\E k \in DOMAIN memberCache : memberCache[k].state = "fulfilled") =>
       err = NoError /\ exitCode # 1
  /\ (pc = "settled" /\ ~LookupFailed) => ENABLED FetchMemberSettled
  /\ pc = "hit" => ENABLED FetchMemberHit

\* two 429s with retry_after 1.5 s each, then the success
C6_Witness ==
  /\ pc = "settled"
  /\ memberCache[apiKey].state = "fulfilled"
  /\ n429 = 2
  /\ attempt = 2
  /\ owedUs = 3000000

\* C7: nominees are resolved one at a time in document order: at most one
\* request is in flight, it belongs to the current nominee, no lookup is
\* started for a nominee not yet reached, and the output lists hold the
\* entries of the nominees resolved so far in input order.
C7_OneAtATimeInOrder ==
  /\ inflight <= 1
  /\ inflight = 1 => pc = "fetch"
  /\ pc \in {"pace", "fetch", "sleep", "settled", "hit"} =>
       /\ ni <= Len(doc)
       /\ ki <= Len(doc[ni])
       /\ KeyOf(CurrentNominee) = apiKey
  /\ \A k \in Ids :
       lookups[k] > 0 => \E p \in Reached : KeyOf(doc[p[1]][p[2]]) = k
  /\ Len(result) <= Len(doc)
  /\ \A i \in 1..Len(result) : result[i] = EntriesOf(doc[i])
  /\ (pc # "boot" /\ ni <= Len(doc)) =>
       /\ Len(result) = ni - 1
       /\ out = EntriesOf(SubSeq(doc[ni], 1, ki - 1))

\* a nomination of three nominees, the second dropped, was written as two entries
C7_Witness ==
  /\ written
  /\ \E i \in 1..Len(doc) :
       /\ Len(doc[i]) = 3
       /\ doc[i][2] = CustomEmpty
       /\ KeyOf(doc[i][1]) # Undef
       /\ Len(result[i]) = 2

\* C8: a custom nominee that names no image never fails the run: without a
\* title it is dropped, with a title it yields a title-only custom entry.
C8_CustomWithoutImageNeverThrows ==
  /\ (pc \in {"rejected", "exit"} /\ err.kind \notin {"none", "env"}) =>
       ~CustomNoImage(CurrentNominee)
  /\ \A i \in 1..Len(result) :
       SelectSeq(result[i], IsTitleOnly) = TitleOnlyOf(doc[i])

\* C9 as claimed: a network error surfaces only once the retries are used up.
C9_NetworkErrorSurfacesAfterRetries ==
  err.kind = "network" => requests = 11

\* C9 as amended: a network error is not retried; at whatever attempt fetch
\* rejects, the call fails at once with that error, without a sleep or
\* another request, and the error reaches main.
C9_NetworkErrorNotRetried ==
  [][ /\ (Responded /\ status' = -1) =>
           /\ pc' = "settled"
           /\ memberCache'[apiKey] = Rejected([kind |-> "network"])
           /\ waitMs' = 0
           /\ attempt' = attempt
           /\ requests' = requests
      /\ (pc = "settled" /\ memberCache[apiKey].state = "rejected") =>
           pc' = "rejected" /\ err' = memberCache[apiKey].error
      /\ err.kind = "network" => requests' = requests /\ inflight' = 0
    ]_vars

\* fetch rejected on the first request and the run ended with that error
C9_Witness ==
  /\ pc = "exit"
  /\ exitCode = 1
  /\ err = [kind |-> "network"]
  /\ requests = 1

\* C10: a failed lookup is out of the cache before its failure reaches the
\* caller: a rejected promise is in the cache only until fetchMember's catch
\* has run, and a lookup of that id would miss the cache.
C10_FailedLookupEvicted ==
  /\ \A k \in DOMAIN memberCache :
       memberCache[k].state = "rejected" => pc = "settled" /\ k = apiKey
  /\ err.kind \in {"429", "status", "network"} => ~CacheHit(apiKey)

\* the lookup of one member failed after another member was cached
C10_Witness ==
  /\ pc = "rejected"
  /\ err.kind = "status"
  /\ lookups[apiKey] = 1
  /\ \E k \in DOMAIN memberCache : memberCache[k].state = "fulfilled"

====
